---- MODULE Spec2Model ----
(***************************************************************************)
(* Model of gen-ai-backend/main.py: the ChatHistory, UsageLogs and         *)
(* SharedLinks tables and the request handlers that read and write them.   *)
(*                                                                         *)
(* The generate handler is modelled step by step (one action per store or  *)
(* provider interaction), because several worker processes share the       *)
(* tables; the short handlers are one action each.  Store reads are taken  *)
(* to succeed; the writes of the generate handler, which have their own    *)
(* try/except, may fail.                                                   *)
(***************************************************************************)
EXTENDS Integers, Sequences, FiniteSets, TLC

\* ---------------------------------------------------------------- bounds
MaxTime == 1        \* the clock takes the instants 0..MaxTime
MaxHistory == 2     \* entries of request.history
MaxLinks == 1       \* share links created in one behaviour

\* ---------------------------------------------------------------- values
None == "None"
Users == {"A", "B"}
\* conversation identities, in the order uuid4 hands them out
ConvSeq == <<"c1", "c2">>
Convs == {ConvSeq[n] : n \in 1..Len(ConvSeq)}
\* the generate requests of one behaviour, in the order they arrive
Reqs == {1, 2}
\* principals are interchangeable: the first request is A's
Senders(r) == IF r = 1 THEN {"A"} ELSE Users
\* conversationId of a generate request: absent, or the identity c1
InputConvs == {None, "c1"}
InputModels == {"gpt-4o", "gemini-pro", "llama-3"}
InputPrompts == {None, "", "hi"}
InputImages == {None, "data:image"}
\* a title of 101 characters
LongTitle ==
    "ttttttttttttttttttttttttttttttttttttttttttttttttttttttttttttttttttttttttttttttttttttttttttttttttttttt"
InputTitles == {" ", " T", "T", LongTitle}
\* a prompt of 51 characters and its first 50 characters
LongPrompt == "ppppppppppppppppppppppppppppppppppppppppppppppppppp"
LongPrompt50 == "pppppppppppppppppppppppppppppppppppppppppppppppppp"
\* message.content of the first and of the second provider response
FirstContents == {None, "a1"}
SecondContents == {None, "a2"}
ToolCallLists ==
    { <<>>, <<"get_current_server_time">>, <<"no_such_tool", "google_search">> }

\* usage counters a provider response may carry (response.usage): a list
\* with the counters, the empty list when the response has none
ZeroUsage == [prompt_tokens |-> 0, completion_tokens |-> 0, total_tokens |-> 0]
SomeUsage == [prompt_tokens |-> 1, completion_tokens |-> 1, total_tokens |-> 2]
Usages == {<<>>, <<ZeroUsage>>, <<SomeUsage>>}

VARIABLES
    chat,       \* ChatHistory table: set of items, key (conversationId, timestamp)
    usage,      \* UsageLogs table: set of items
    links,      \* SharedLinks table: set of items, key shareId
    clock,      \* the instant datetime.now() returns
    reqs,       \* generate requests: position and locals of each
    resp        \* the response the last step sent, NoResp if it sent none

vars == <<chat, usage, links, clock, reqs, resp>>

\* ------------------------------------------------------------ table model
SUPPORTED_MODELS ==
    [m \in {"gpt-4o", "gpt-4", "gemini-pro", "gemini-2.5-flash"} |->
        IF m \in {"gpt-4o", "gpt-4"} THEN "openai" ELSE "google"]

\* f"{timestamp}_user" / f"{timestamp}_ai": an instant and a suffix
OrderingKey(t, sfx) == [t |-> t, sfx |-> sfx]

\* comparison of two suffixes as strings: "_ai" < "_user"
SuffixLess(s1, s2) == s1 = "ai" /\ s2 = "user"

\* string comparison of two ordering keys: the ISO instant decides, then
\* the suffix
KeyLess(k1, k2) ==
    \/ k1.t < k2.t
    \/ k1.t = k2.t /\ SuffixLess(k1.sfx, k2.sfx)

\* table.put_item: replaces the item with the same primary key; a failing
\* write (ok = FALSE) raises and leaves the table as it was
put_item(table, item, ok) ==
    IF ok
    THEN {i \in table : ~(i.conversationId = item.conversationId
                          /\ i.timestamp = item.timestamp)} \cup {item}
    ELSE table

\* insertion of one item into a list sorted by timestamp
RECURSIVE InsertSorted(_, _)
InsertSorted(item, s) ==
    IF s = <<>> THEN <<item>>
    ELSE IF KeyLess(item.timestamp, Head(s).timestamp)
         THEN <<item>> \o s
         ELSE <<Head(s)>> \o InsertSorted(item, Tail(s))

\* items.sort(key=lambda x: x['timestamp'])
RECURSIVE SortByTimestamp(_)
SortByTimestamp(s) ==
    IF s = <<>> THEN <<>>
    ELSE InsertSorted(Head(s), SortByTimestamp(Tail(s)))

RECURSIVE SetToSeq(_)
SetToSeq(S) ==
    IF S = {} THEN <<>>
    ELSE LET x == CHOOSE y \in S : TRUE IN <<x>> \o SetToSeq(S \ {x})

\* chat_history_table.query(KeyConditionExpression=Key('conversationId').eq(c)):
\* the items of one partition, in ascending order of the sort key
Query(table, c) ==
    SortByTimestamp(SetToSeq({i \in table : i.conversationId = c}))

\* ------------------------------------------------------------- responses
NoResp == [op |-> "none", user |-> None, conv |-> None, status |-> 0,
           items |-> <<>>, text |-> None, shareId |-> 0]

Response(op, user, conv, status, items, text, shareId) ==
    [op |-> op, user |-> user, conv |-> conv, status |-> status,
     items |-> items, text |-> text, shareId |-> shareId]

\* raise HTTPException(status_code=status)
HTTPException(status) == [raised |-> TRUE, status |-> status]
\* the handler body ran to its return statement
Returned == [raised |-> FALSE, status |-> 200]

\* "except Exception as e: raise HTTPException(status_code=500, ...)" around a
\* handler body: HTTPException is an Exception, so one raised inside the
\* body is caught too and leaves as a 500
ExceptException(outcome) ==
    IF outcome.raised THEN HTTPException(500) ELSE outcome

\* ------------------------------------------------------------------ Init
IdleReq ==
    [pc |-> "idle", user_id |-> None, conversation_id |-> None,
     model |-> None, calls |-> 0, tool_calls |-> <<>>, tool_msgs |-> <<>>,
     tool_rounds |-> 0,
     first_content |-> None, second_content |-> None,
     ai_response_text |-> "", usage_data |-> ZeroUsage,
     puts |-> <<>>, status |-> 0]

Init ==
    /\ chat = {}
    /\ usage = {}
    /\ links = {}
    /\ clock = 0
    /\ reqs = [r \in Reqs |-> IdleReq]
    /\ resp = NoResp

\* time passes: datetime.now() returns a later instant from now on; reads
\* between two ticks return the same instant
Tick ==
    /\ clock < MaxTime
    /\ clock' = clock + 1
    /\ resp' = NoResp
    /\ UNCHANGED <<chat, usage, links, reqs>>

\* ------------------------------------------- conversation management
\* body of get_conversation_messages inside its try
GetMessagesBody(items, user_id) ==
    IF items # <<>> /\ items[1].userId # user_id
    THEN HTTPException(403)
    ELSE Returned

get_conversation_messages(conversation_id, user_id) ==
    LET items == Query(chat, conversation_id)
        out == ExceptException(GetMessagesBody(items, user_id))
    IN  /\ resp' = Response("get", user_id, conversation_id, out.status,
                            IF out.raised THEN <<>> ELSE SortByTimestamp(items),
                            None, 0)
        /\ UNCHANGED <<chat, usage, links, clock, reqs>>

\* an empty conversation is reported as not found
DeleteBody_NotFoundOnEmpty(items, user_id) ==
    IF items = <<>> THEN [raised |-> TRUE, status |-> 404, deleted |-> {}]
    ELSE IF items[1].userId # user_id
         THEN [raised |-> TRUE, status |-> 403, deleted |-> {}]
         ELSE [raised |-> FALSE, status |-> 200,
               deleted |-> {items[n] : n \in 1..Len(items)}]

\* body of delete_conversation inside its try; deleted: the items the
\* batch writer removes
DeleteBody(items, user_id) ==
    IF items = <<>> THEN [raised |-> FALSE, status |-> 200, deleted |-> {}]
    ELSE IF items[1].userId # user_id
         THEN [raised |-> TRUE, status |-> 403, deleted |-> {}]
         ELSE [raised |-> FALSE, status |-> 200,
               deleted |-> {items[n] : n \in 1..Len(items)}]

delete_conversation(conversation_id, user_id) ==
    LET items == Query(chat, conversation_id)
        body == DeleteBody(items, user_id)
        out == ExceptException(body)
    IN  /\ chat' = {i \in chat :
                      ~\E d \in body.deleted :
                          /\ d.conversationId = i.conversationId
                          /\ d.timestamp = i.timestamp}
        /\ resp' = Response("delete", user_id, conversation_id, out.status,
                            <<>>, None, 0)
        /\ UNCHANGED <<usage, links, clock, reqs>>

\* request.new_title.strip()
Strip(title) == IF title = " " THEN "" ELSE IF title = " T" THEN "T" ELSE title

\* body of rename_conversation inside its try
RenameBody(items, user_id) ==
    IF items = <<>> THEN HTTPException(404)
    ELSE IF items[1].userId # user_id THEN HTTPException(403)
    ELSE Returned

\* table.update_item(Key=key, UpdateExpression="SET title = :t")
update_item_title(table, conversation_id, timestamp, title) ==
    {IF i.conversationId = conversation_id /\ i.timestamp = timestamp
     THEN [i EXCEPT !.title = title] ELSE i : i \in table}

rename_conversation(conversation_id, title, user_id) ==
    LET new_title == Strip(title)
        items == Query(chat, conversation_id)
        body == RenameBody(items, user_id)
        out == ExceptException(body)
    IN  IF new_title = ""
        THEN /\ resp' = Response("rename", user_id, conversation_id, 400,
                                 <<>>, None, 0)
             /\ UNCHANGED <<chat, usage, links, clock, reqs>>
        ELSE /\ chat' = IF body.raised THEN chat
                        ELSE update_item_title(chat, conversation_id,
                                               items[1].timestamp, new_title)
             /\ resp' = Response("rename", user_id, conversation_id,
                                 out.status, <<>>,
                                 IF out.raised THEN None ELSE new_title, 0)
             /\ UNCHANGED <<usage, links, clock, reqs>>

\* chat_history_table.scan(FilterExpression=Attr('userId').eq(user_id))
scan(table, user_id) == {i \in table : i.userId = user_id}

\* text[:50]
First50(text) == IF text = LongPrompt THEN LongPrompt50 ELSE text

\* the title attribute is ignored
DisplayTitle_TextOnly(first_message) == First50(first_message.text)

\* display_title: the item's title attribute; without one, or with an empty
\* one, the first 50 characters of its text
DisplayTitle(first_message) ==
    IF first_message.title # None /\ first_message.title # ""
    THEN first_message.title
    ELSE First50(first_message.text)

\* the titles of the model in the order Python compares str
TitleOrder ==
    <<"", "...", "Image Received", "T", "a1", "a2", "hi", LongPrompt50, LongTitle>>
TitleRank(title) ==
    CHOOSE n \in 1..Len(TitleOrder) : TitleOrder[n] = title

\* sorted(conversations, key=lambda x: x['title']): the entries in
\* ascending order of title; entries with one title keep the order the
\* scan delivered them in, which is any order
SortedByTitle(conversations) ==
    {out \in [1..Cardinality(conversations) -> conversations] :
        /\ \A n, m \in DOMAIN out : n # m => out[n] # out[m]
        /\ \A n, m \in DOMAIN out :
              n < m => TitleRank(out[n].title) <= TitleRank(out[m].title)}

\* the entry of one conversation: its identity and the display title of
\* the earliest of the scanned items
ConversationEntry(items, conv_id) ==
    LET sorted == SortByTimestamp(SetToSeq({i \in items :
                                              i.conversationId = conv_id}))
    IN  [id |-> conv_id, title |-> DisplayTitle(sorted[1])]

get_conversations(user_id) ==
    LET items == scan(chat, user_id)
        conversations ==
            {ConversationEntry(items, c) : c \in {i.conversationId : i \in items}}
    IN  /\ \E out \in SortedByTitle(conversations) :
              resp' = Response("list", user_id, None, 200, out, None, 0)
        /\ UNCHANGED <<chat, usage, links, clock, reqs>>

\* ------------------------------------------------------------- sharing
\* the ownership test is missing
ShareBody_NoOwnerTest(items, user_id) ==
    IF items = <<>> THEN HTTPException(404) ELSE Returned

\* body of share_conversation inside its try, up to the put_item
ShareBody(items, user_id) ==
    IF items = <<>> THEN HTTPException(404)
    ELSE IF items[1].userId # user_id THEN HTTPException(403)
    ELSE Returned

\* str(uuid.uuid4()): an identity no link has yet
NewShareId == Cardinality(links) + 1

share_conversation(conversation_id, user_id) ==
    LET items == Query(chat, conversation_id)
        body == ShareBody(items, user_id)
        out == ExceptException(body)
        share_id == NewShareId
    IN  /\ body.raised \/ Cardinality(links) < MaxLinks
        /\ links' = IF body.raised THEN links
                    ELSE links \cup {[shareId |-> share_id,
                                      conversationId |-> conversation_id,
                                      created_at |-> clock,
                                      ownerId |-> user_id]}
        /\ resp' = Response("share", user_id, conversation_id, out.status,
                            <<>>, None, IF out.raised THEN 0 ELSE share_id)
        /\ UNCHANGED <<chat, usage, clock, reqs>>

\* shared_links_table.get_item(Key={'shareId': share_id}).get('Item')
get_item(table, share_id) == {l \in table : l.shareId = share_id}

\* the public_items comprehension: text, sender and the item's timestamp
\* attribute, which is the item's sort key
PublicItem(item) ==
    [text |-> item.text, sender |-> item.sender, timestamp |-> item.timestamp]

\* only the first turn is returned
SharedMessages_FirstOnly(table, conversation_id) ==
    LET items == SortByTimestamp(Query(table, conversation_id))
    IN  [n \in 1..(IF items = <<>> THEN 0 ELSE 1) |-> PublicItem(items[n])]

\* body of get_shared_conversation: the items the response carries
SharedMessages(table, conversation_id) ==
    LET items == SortByTimestamp(Query(table, conversation_id))
    IN  [n \in 1..Len(items) |-> PublicItem(items[n])]

get_shared_conversation(share_id) ==
    LET link_data == get_item(links, share_id)
        body == IF link_data = {} THEN HTTPException(404) ELSE Returned
        out == ExceptException(body)
    IN  /\ resp' =
            IF out.raised
            THEN Response("resolve", None, None, out.status, <<>>, None, share_id)
            ELSE LET conversation_id ==
                         (CHOOSE l \in link_data : TRUE).conversationId
                 IN  Response("resolve", None, conversation_id, out.status,
                              SharedMessages(chat, conversation_id), None,
                              share_id)
        /\ UNCHANGED <<chat, usage, links, clock, reqs>>

\* ------------------------------------------------------------ generate
\* the handler returns or raises: of its locals the record keeps the
\* writes it issued, the provider calls it made and their last answer
Finished(req, status) ==
    [IdleReq EXCEPT !.pc = "done", !.status = status,
                    !.user_id = req.user_id,
                    !.conversation_id = req.conversation_id,
                    !.calls = req.calls, !.tool_calls = req.tool_calls,
                    !.tool_rounds = req.tool_rounds,
                    !.second_content = req.second_content,
                    !.puts = req.puts]

\* an empty prompt is kept as it is
DisplayPrompt_KeepsEmpty(prompt, image) ==
    IF prompt # None THEN prompt
    ELSE IF image # None THEN "Image Received" ELSE "..."

\* request.prompt or ("Image Received" if request.image else "...")
DisplayPrompt(prompt, image) ==
    IF prompt # None /\ prompt # "" THEN prompt
    ELSE IF image # None THEN "Image Received" ELSE "..."

\* the item of a turn as generate writes it
Turn(conversation_id, t, user_id, sender, text) ==
    [conversationId |-> conversation_id,
     timestamp |-> OrderingKey(t, sender),
     userId |-> user_id, sender |-> sender, text |-> text, title |-> None]

\* request.conversationId or str(uuid.uuid4()): uuid4 yields an identity
\* that no turn, link or request carries
FreshConvs ==
    {c \in Convs :
        /\ \A i \in chat : i.conversationId # c
        /\ \A l \in links : l.conversationId # c
        /\ \A r \in Reqs : reqs[r].conversation_id # c}

\* the identity uuid4 returns: one of the fresh identities
NewConv ==
    {ConvSeq[n] : n \in {m \in 1..Len(ConvSeq) :
                            /\ ConvSeq[m] \in FreshConvs
                            /\ \A k \in 1..(m - 1) : ConvSeq[k] \notin FreshConvs}}

\* "1. Save user message": the request record after the write was tried
SaveUserMessage(req, item, ok) ==
    [req EXCEPT !.puts = Append(@, [item |-> item, ok |-> ok])]

\* the user turn is not written
UserMessageTable_Dropped(table, item, ok) == table

\* the table after "1. Save user message"
UserMessageTable(table, item, ok) == put_item(table, item, ok)

\* lines 335-352: locals, the user turn, the model lookup
GenerateStart(r, user_id, conv_in, model, prompt, image, ok) ==
    /\ reqs[r].pc = "idle"
    /\ \A q \in Reqs : q < r => reqs[q].pc # "idle"
    /\ user_id \in Senders(r)
    /\ \E conversation_id \in (IF conv_in = None THEN NewConv ELSE {conv_in}) :
         LET item == Turn(conversation_id, clock, user_id, "user",
                          DisplayPrompt(prompt, image))
             started == [IdleReq EXCEPT !.user_id = user_id,
                                        !.conversation_id = conversation_id,
                                        !.model = model]
             saved == SaveUserMessage(started, item, ok)
         IN  /\ chat' = UserMessageTable(chat, item, ok)
             /\ IF model \in DOMAIN SUPPORTED_MODELS
                THEN /\ reqs' = [reqs EXCEPT ![r] = [saved EXCEPT !.pc = "call"]]
                     /\ resp' = NoResp
                ELSE /\ reqs' = [reqs EXCEPT ![r] = Finished(saved, 400)]
                     /\ resp' = Response("generate", user_id, conversation_id,
                                         400, <<>>, None, 0)
    /\ UNCHANGED <<usage, links, clock>>

\* content or ""
OrEmpty(content) == IF content = None THEN "" ELSE content

\* the usage_data dict built from response.usage, kept at zero without one
UsageData(u) == IF u = <<>> THEN ZeroUsage ELSE u[1]

\* "except Exception as e: raise HTTPException(status_code=500, ...)" of the
\* provider section: the request ends there
AdapterFailed(req) == Finished(req, 500)

\* lines 394-403 and 445-454: the first provider call and, without tool
\* calls, its answer
AfterFirstCall(req, content, tool_calls, u) ==
    IF SUPPORTED_MODELS[req.model] = "openai" /\ tool_calls # <<>>
    THEN [req EXCEPT !.pc = "tools", !.calls = @ + 1,
                     !.first_content = content, !.tool_calls = tool_calls]
    ELSE [req EXCEPT !.pc = "save", !.calls = @ + 1,
                     !.first_content = content,
                     !.ai_response_text =
                         IF SUPPORTED_MODELS[req.model] = "openai"
                         THEN OrEmpty(content) ELSE content,
                     !.usage_data =
                         IF SUPPORTED_MODELS[req.model] = "openai"
                         THEN UsageData(u) ELSE @]

AdapterCall(r, failed, content, tool_calls, u) ==
    /\ reqs[r].pc = "call"
    /\ SUPPORTED_MODELS[reqs[r].model] = "google" =>
           /\ tool_calls = <<>> /\ u = <<>>
           /\ ~failed => content # None
    /\ failed => content = None /\ tool_calls = <<>> /\ u = <<>>
    /\ IF failed
       THEN /\ reqs' = [reqs EXCEPT ![r] =
                           AdapterFailed([reqs[r] EXCEPT !.calls = @ + 1])]
            /\ resp' = Response("generate", reqs[r].user_id,
                                reqs[r].conversation_id, 500, <<>>, None, 0)
       ELSE /\ reqs' = [reqs EXCEPT ![r] =
                           AfterFirstCall(reqs[r], content, tool_calls, u)]
            /\ resp' = NoResp
    /\ UNCHANGED <<chat, usage, links, clock>>

\* tool_functions: the callables of the registry
tool_functions == {"get_current_server_time", "google_search"}

\* get_current_server_time(): the instant as ISO text
get_current_server_time == "server-time"

\* the query argument of the google_search tool calls of ToolCallLists
SearchQuery == "tla"

\* google_search(query): response.text of the search service for the query
google_search(query) ==
    IF query = SearchQuery THEN "results for tla" ELSE "results"

\* function_to_call(): the callable is called without arguments, so
\* google_search, which takes query, raises TypeError
Call(function_name) ==
    IF function_name = "get_current_server_time"
    THEN [raised |-> FALSE, value |-> get_current_server_time]
    ELSE [raised |-> TRUE,
          value |-> "google_search() missing 1 required positional argument: 'query'"]

\* lines 413-424: the text a tool call yields; no_such_tool is the one
\* name of ToolCallLists that the registry does not have
FunctionResponse(function_name) ==
    IF function_name \in tool_functions
    THEN IF Call(function_name).raised
         THEN "Error executing tool: google_search() missing 1 required positional argument: 'query'"
         ELSE Call(function_name).value
    ELSE "Error: Tool no_such_tool not found."

\* the loop ends at the first tool call that yields an error
ToolMessages_StopAtError(tool_calls) ==
    LET failing == {n \in 1..Len(tool_calls) :
                       FunctionResponse(tool_calls[n]) # get_current_server_time}
        last == IF failing = {} THEN Len(tool_calls)
                ELSE (CHOOSE n \in failing : \A m \in failing : n <= m) - 1
    IN  [n \in 1..last |->
            [tool_call_id |-> n, role |-> "tool", name |-> tool_calls[n],
             content |-> FunctionResponse(tool_calls[n])]]

\* lines 412-434: one tool message per tool call, in order
ToolMessages(tool_calls) ==
    [n \in 1..Len(tool_calls) |->
        [tool_call_id |-> n, role |-> "tool", name |-> tool_calls[n],
         content |-> FunctionResponse(tool_calls[n])]]

ExecuteTools(r) ==
    /\ reqs[r].pc = "tools"
    /\ reqs' = [reqs EXCEPT ![r] =
                   [reqs[r] EXCEPT !.pc = "call2",
                                   !.tool_rounds = @ + 1,
                                   !.tool_msgs = ToolMessages(reqs[r].tool_calls)]]
    /\ resp' = NoResp
    /\ UNCHANGED <<chat, usage, links, clock>>

\* the answer is taken from the last tool message instead
AfterSecondCall_ToolText(req, content, tool_calls, u) ==
    [req EXCEPT !.pc = "save", !.calls = @ + 1,
                !.second_content = content,
                !.ai_response_text = req.tool_msgs[Len(req.tool_msgs)].content,
                !.usage_data = UsageData(u)]

\* lines 437-443: the second provider call; its content is the answer and
\* its message.tool_calls are not read
AfterSecondCall(req, content, tool_calls, u) ==
    [req EXCEPT !.pc = "save", !.calls = @ + 1,
                !.second_content = content,
                !.ai_response_text = OrEmpty(content),
                !.usage_data = UsageData(u)]

\* tool calls of the second response start one more tool round
SecondAdapterCall_Retools(r, failed, content, tool_calls, u) ==
    /\ reqs[r].pc = "call2"
    /\ failed => content = None /\ tool_calls = <<>> /\ u = <<>>
    /\ IF failed
       THEN /\ reqs' = [reqs EXCEPT ![r] =
                           AdapterFailed([reqs[r] EXCEPT !.calls = @ + 1])]
            /\ resp' = Response("generate", reqs[r].user_id,
                                reqs[r].conversation_id, 500, <<>>, None, 0)
       ELSE /\ reqs' = [reqs EXCEPT ![r] =
                           IF tool_calls # <<>> /\ reqs[r].tool_rounds < 2
                           THEN [reqs[r] EXCEPT !.pc = "tools", !.calls = @ + 1,
                                                !.tool_calls = tool_calls]
                           ELSE AfterSecondCall(reqs[r], content, tool_calls, u)]
            /\ resp' = NoResp
    /\ UNCHANGED <<chat, usage, links, clock>>

SecondAdapterCall(r, failed, content, tool_calls, u) ==
    /\ reqs[r].pc = "call2"
    /\ failed => content = None /\ tool_calls = <<>> /\ u = <<>>
    /\ IF failed
       THEN /\ reqs' = [reqs EXCEPT ![r] =
                           AdapterFailed([reqs[r] EXCEPT !.calls = @ + 1])]
            /\ resp' = Response("generate", reqs[r].user_id,
                                reqs[r].conversation_id, 500, <<>>, None, 0)
       ELSE /\ reqs' = [reqs EXCEPT ![r] =
                           AfterSecondCall(reqs[r], content, tool_calls, u)]
            /\ resp' = NoResp
    /\ UNCHANGED <<chat, usage, links, clock>>

\* the item of "3. Save AI response"
AiTurn(req, t) ==
    Turn(req.conversation_id, t, req.user_id, "ai", req.ai_response_text)

\* the record is written whatever the token count
UsageItems_Always(req, t, ok) ==
    IF ok
    THEN {[userId |-> req.user_id, timestamp |-> t, model |-> req.model,
           prompt_tokens |-> req.usage_data.prompt_tokens,
           completion_tokens |-> req.usage_data.completion_tokens,
           total_tokens |-> req.usage_data.total_tokens]}
    ELSE {}

\* the usage_logs_table item, written after the ai turn when
\* usage_data['total_tokens'] > 0
UsageItems(req, t, ok) ==
    IF ok /\ req.usage_data.total_tokens > 0
    THEN {[userId |-> req.user_id, timestamp |-> t, model |-> req.model,
           prompt_tokens |-> req.usage_data.prompt_tokens,
           completion_tokens |-> req.usage_data.completion_tokens,
           total_tokens |-> req.usage_data.total_tokens]}
    ELSE {}

\* lines 460-479: the ai turn, the usage record, the response
SaveAiResponse(r, ok) ==
    /\ reqs[r].pc = "save"
    /\ LET item == AiTurn(reqs[r], clock)
       IN  /\ chat' = put_item(chat, item, ok)
           /\ usage' = usage \cup UsageItems(reqs[r], clock, ok)
           /\ reqs' = [reqs EXCEPT ![r] =
                          Finished([reqs[r] EXCEPT !.puts =
                                       Append(@, [item |-> item, ok |-> ok])],
                                   200)]
           /\ resp' = Response("generate", reqs[r].user_id,
                               reqs[r].conversation_id, 200, <<>>,
                               reqs[r].ai_response_text, 0)
    /\ UNCHANGED <<links, clock>>

\* ------------------------------------------------------------------ Next
\* the generate handler on its plain path: a text prompt, a chat-completion
\* model that answers without tool calls, store writes that succeed
PlainStart(R) ==
    \E r \in R, u \in Users, c \in InputConvs :
        GenerateStart(r, u, c, "gpt-4o", "hi", None, TRUE)

PlainAdapterCall(R) ==
    \E r \in R, failed \in BOOLEAN :
        AdapterCall(r, failed, IF failed THEN None ELSE "a1", <<>>, <<>>)

PlainSave(R) == \E r \in R : SaveAiResponse(r, TRUE)

\* the generate handler with every input the request model admits
GenerateStartAny ==
    \E u \in Users, c \in InputConvs, m \in InputModels,
       p \in InputPrompts, img \in InputImages, ok \in BOOLEAN :
        GenerateStart(1, u, c, m, p, img, ok)

AdapterCallAny ==
    \E failed \in BOOLEAN, content \in FirstContents,
       tc \in ToolCallLists, u \in Usages :
        AdapterCall(1, failed, content, tc, u)

ExecuteToolsAny == ExecuteTools(1)

SecondAdapterCallAny ==
    \E failed \in BOOLEAN, content \in SecondContents,
       tc \in ToolCallLists, u \in Usages :
        SecondAdapterCall(1, failed, content, tc, u)

SaveAiResponseAny == \E ok \in BOOLEAN : SaveAiResponse(1, ok)

DeleteAny == \E c \in Convs, u \in Users : delete_conversation(c, u)

\* the agent loop: request 1 with every input, next to a plain request 2
\* and the operation that removes turns
Next ==
    \/ Tick
    \/ GenerateStartAny
    \/ AdapterCallAny
    \/ ExecuteToolsAny
    \/ SecondAdapterCallAny
    \/ SaveAiResponseAny
    \/ PlainStart({2})
    \/ PlainAdapterCall({2})
    \/ PlainSave({2})
    \/ DeleteAny

Spec == Init /\ [][Next]_vars

GetAny == \E c \in Convs, u \in Users : get_conversation_messages(c, u)

RenameAny ==
    \E c \in Convs, u \in Users, t \in InputTitles : rename_conversation(c, t, u)

ShareAny == \E c \in Convs, u \in Users : share_conversation(c, u)

ResolveAny == \E sid \in 1..(MaxLinks + 1) : get_shared_conversation(sid)

\* the conversation store and the sharing facade under plain generate
\* requests (RenameAny is left to a specification of its own: a title
\* changes no turn's text, sender, owner or key)
NextStore ==
    \/ Tick
    \/ PlainStart(Reqs)
    \/ PlainAdapterCall(Reqs)
    \/ PlainSave(Reqs)
    \/ GetAny
    \/ DeleteAny
    \/ ShareAny
    \/ ResolveAny

SpecStore == Init /\ [][NextStore]_vars

\* one generate request with every input, next to the operations that
\* remove turns and create links
NextAgent ==
    \/ Tick
    \/ GenerateStartAny
    \/ AdapterCallAny
    \/ ExecuteToolsAny
    \/ SecondAdapterCallAny
    \/ SaveAiResponseAny
    \/ DeleteAny
    \/ ShareAny

SpecAgent == Init /\ [][NextAgent]_vars

\* the agent loop of one generate request on its own
NextLoop ==
    \/ Tick
    \/ GenerateStartAny
    \/ AdapterCallAny
    \/ ExecuteToolsAny
    \/ SecondAdapterCallAny
    \/ SaveAiResponseAny

\* the handler runs its statements one after the other and every call it
\* makes returns or raises: a request that has started takes its next step
SpecLoop ==
    /\ Init /\ [][NextLoop]_vars
    /\ WF_vars(AdapterCallAny)
    /\ WF_vars(ExecuteToolsAny)
    /\ WF_vars(SecondAdapterCallAny)
    /\ WF_vars(SaveAiResponseAny)

\* a generate request on its plain path with a short or a long prompt
ManagePrompts == {"hi", LongPrompt}
ManageStart(R) ==
    \E r \in R, u \in Users, c \in InputConvs, p \in ManagePrompts :
        GenerateStart(r, u, c, "gpt-4o", p, None, TRUE)

ListAny == \E u \in Users : get_conversations(u)

\* titles: conversations made by plain generate requests, renamed and
\* listed
NextManage ==
    \/ Tick
    \/ ManageStart(Reqs)
    \/ PlainAdapterCall(Reqs)
    \/ PlainSave(Reqs)
    \/ RenameAny
    \/ ListAny

SpecManage == Init /\ [][NextManage]_vars

\* ------------------------------------------------- the message list
\* request.history: lists of ChatMessage of at most MaxHistory entries; a
\* request without history is the one with the empty list
InputRoles == {"user", "ai", "model"}
InputContents == {"h1", "h2"}
ChatMessage(role, content) == [role |-> role, content |-> content]
ChatMessages == {ChatMessage(role, content) :
                    role \in InputRoles, content \in InputContents}
InputHistories == UNION {[1..n -> ChatMessages] : n \in 0..MaxHistory}
InputSystemPrompts == {None, " ", " T"}

\* request.prompt or ("Describe this image." if request.image else "")
FinalPromptForLlm(prompt, image) ==
    IF prompt # None /\ prompt # "" THEN prompt
    ELSE IF image # None THEN "Describe this image." ELSE ""

\* final_system_prompt: the base prompt, followed by the stripped
\* instructions of the request when it has some
FinalSystemPrompt(systemPrompt) ==
    IF systemPrompt # None /\ Strip(systemPrompt) # ""
    THEN <<"base_system_prompt", "User Instructions", Strip(systemPrompt)>>
    ELSE <<"base_system_prompt">>

\* role = "assistant" if msg.role == "model" else msg.role
ApiRole(role) == IF role = "model" THEN "assistant" ELSE role

\* user_content: the text part and, with an image, the image part
UserContent(prompt, image) ==
    <<[type |-> "text", text |-> FinalPromptForLlm(prompt, image)]>>
    \o (IF image # None THEN <<[type |-> "image_url", url |-> image]>>
        ELSE <<>>)

\* lines 359-390: messages_for_api before the first provider call
MessagesForApi(request) ==
    <<[role |-> "system", content |-> FinalSystemPrompt(request.systemPrompt)]>>
    \o [n \in 1..Len(request.history) |->
            [role |-> ApiRole(request.history[n].role),
             content |-> request.history[n].content]]
    \o <<[role |-> "user",
          content |-> UserContent(request.prompt, request.image)]>>

\* a request to a chat-completion model that has written its user turn
\* and is about to build its message list
InitMessages ==
    /\ chat = {}
    /\ usage = {}
    /\ links = {}
    /\ clock = 0
    /\ resp = NoResp
    /\ \E p \in InputPrompts, img \in InputImages,
          h \in InputHistories, sp \in InputSystemPrompts :
          reqs = [r \in Reqs |->
                    IF r = 1
                    THEN [pc |-> "build",
                          request |-> [prompt |-> p, image |-> img,
                                       history |-> h, systemPrompt |-> sp],
                          messages_for_api |-> <<>>]
                    ELSE IdleReq]

BuildMessages(r) ==
    /\ reqs[r].pc = "build"
    /\ reqs' = [reqs EXCEPT ![r] =
                   [reqs[r] EXCEPT !.pc = "built",
                                   !.messages_for_api =
                                       MessagesForApi(reqs[r].request)]]
    /\ UNCHANGED <<chat, usage, links, clock, resp>>

NextMessages == \E r \in Reqs : BuildMessages(r)

SpecMessages == InitMessages /\ [][NextMessages]_vars

\* ---------------------------------------------------------------- claims
\* the ai turn a request has in the table
AiTurnOf(table, req) ==
    {i \in table : /\ i.conversationId = req.conversation_id
                   /\ i.userId = req.user_id
                   /\ i.sender = "ai"}

\* C1: every generate request that reached the model adapter ends with an
\* ai turn appended to its conversation, whether the adapter returned text
\* or raised.
C1_AiTurnWhateverTheOutcome ==
    [][\A r \in Reqs :
          (reqs[r].pc # "done" /\ reqs'[r].pc = "done" /\ reqs'[r].calls >= 1)
              => \E i \in AiTurnOf(chat', reqs'[r]) : i.timestamp.t = clock]_vars

\* C2 as stated: at the first model adapter call of a request, the request's
\* user turn is in the conversation store.
C2_UserTurnStoredAtFirstCall ==
    [][\A r \in Reqs :
          (reqs[r].calls = 0 /\ reqs'[r].calls = 1)
              => /\ Len(reqs[r].puts) = 1
                 /\ reqs[r].puts[1].item \in chat]_vars

\* C2 amended: the user-turn write is issued before the first adapter call
\* and no adapter call is made before it; when the write succeeds the turn
\* is in the store as the step ends, when it fails the request goes on to
\* the adapter without it.
C2_UserTurnWrittenBeforeFirstCall ==
    [][\A r \in Reqs :
          /\ (reqs[r].pc = "idle" /\ reqs'[r].pc = "call")
                 => /\ reqs'[r].calls = 0
                    /\ Len(reqs'[r].puts) = 1
                    /\ reqs'[r].puts[1].item.sender = "user"
                    /\ reqs'[r].puts[1].item.userId = reqs'[r].user_id
                    /\ reqs'[r].puts[1].item.conversationId
                           = reqs'[r].conversation_id
                    /\ reqs'[r].puts[1].ok => reqs'[r].puts[1].item \in chat'
                    /\ ~reqs'[r].puts[1].ok =>
                           (reqs'[r].puts[1].item \in chat'
                                <=> reqs'[r].puts[1].item \in chat)
          /\ (reqs'[r].calls > reqs[r].calls)
                 => /\ reqs[r].pc \in {"call", "call2"}
                    /\ Len(reqs[r].puts) = 1
                    /\ reqs[r].puts[1].item.sender = "user"]_vars

\* a request called the adapter after its user-turn write succeeded, and
\* the turn is in the store
C2_Witness ==
    \E r \in Reqs :
        /\ reqs[r].calls >= 1
        /\ Len(reqs[r].puts) >= 1
        /\ reqs[r].puts[1].ok
        /\ reqs[r].puts[1].item \in chat

\* the texts the tool round of a request produced
ToolTexts(req) ==
    {FunctionResponse(req.tool_calls[n]) : n \in 1..Len(req.tool_calls)}
        \cup {req.tool_calls[n] : n \in 1..Len(req.tool_calls)}

HasOwner(table, c) == Query(table, c) # <<>>
Owner(table, c) == Query(table, c)[1].userId

\* C4: get-messages or delete by a principal who is not the owner of the
\* conversation ends with access denied (403) and returns no turn.
C4_NonOwnerIsDenied ==
    (/\ resp.op \in {"get", "delete"}
     /\ HasOwner(chat, resp.conv)
     /\ Owner(chat, resp.conv) # resp.user)
        => resp.status = 403 /\ resp.items = <<>>

\* C5: all turns of one conversation have the same owning principal.
C5_OneOwnerPerConversation ==
    \A i, j \in chat :
        i.conversationId = j.conversationId => i.userId = j.userId

\* C6: the turns list-by-conversation returns are sorted ascending by
\* ordering key, and the first of them, if any, has sender role user.
C6_SortedAndUserFirst ==
    (resp.op = "get" /\ resp.status = 200 /\ resp.items # <<>>)
        => /\ \A n \in 1..(Len(resp.items) - 1) :
                  KeyLess(resp.items[n].timestamp, resp.items[n + 1].timestamp)
           /\ resp.items[1].sender = "user"

\* C7: a turn that is in the store stays there with the same text until its
\* conversation is deleted; no append overwrites or removes it.
C7_AppendOnly ==
    [][\A i \in chat :
          \/ \E j \in chat' : /\ j.conversationId = i.conversationId
                              /\ j.timestamp = i.timestamp
                              /\ j.text = i.text
          \/ /\ resp'.op = "delete"
             /\ resp'.conv = i.conversationId
             /\ resp'.status = 200]_vars

\* C8: a share link appears only in a create-link step of the principal who
\* owns the target conversation at that moment; a create-link request of a
\* non-owner, or for a conversation without turns, leaves the links as they
\* were.
C8_LinkOnlyByOwner ==
    [][/\ links' # links =>
              \E l \in links' :
                  /\ l \notin links
                  /\ links' = links \cup {l}
                  /\ resp'.op = "share"
                  /\ resp'.user = l.ownerId
                  /\ resp'.conv = l.conversationId
                  /\ HasOwner(chat, l.conversationId)
                  /\ Owner(chat, l.conversationId) = l.ownerId
       /\ (/\ resp'.op = "share"
           /\ \/ ~HasOwner(chat, resp'.conv)
              \/ Owner(chat, resp'.conv) # resp'.user)
              => links' = links]_vars

\* a link exists, and the last step was a create-link request of a
\* non-owner that was turned down
C8_Witness ==
    /\ links # {}
    /\ resp.op = "share"
    /\ resp.status # 200
    /\ HasOwner(chat, resp.conv)
    /\ Owner(chat, resp.conv) # resp.user

\* C9: the projection a resolved share link returns carries neither the
\* owner identity nor the ordering key of any turn.
C9_ProjectionHidesOwnerAndKey ==
    (resp.op = "resolve" /\ resp.status = 200)
        => \A n \in 1..Len(resp.items) :
               /\ "userId" \notin DOMAIN resp.items[n]
               /\ \A i \in chat :
                      i.conversationId = resp.conv
                          => resp.items[n].timestamp # i.timestamp

\* C10: resolving an existing link needs no principal and returns the
\* link's conversation identity with all the turns that conversation has at
\* that moment, in ascending order; a link never changes, so resolving it
\* again names the same conversation.
C10_ResolveLiveView ==
    [][/\ \A l \in links : l \in links'
       /\ \A l \in links' :
              (resp'.op = "resolve" /\ resp'.shareId = l.shareId)
                  => /\ resp'.status = 200
                     /\ resp'.user = None
                     /\ resp'.conv = l.conversationId
                     /\ {[text |-> i.text, sender |-> i.sender,
                          timestamp |-> i.timestamp] :
                            i \in {j \in chat' :
                                     j.conversationId = l.conversationId}}
                            = {resp'.items[n] : n \in 1..Len(resp'.items)}
                     /\ \A n \in 1..(Len(resp'.items) - 1) :
                            KeyLess(resp'.items[n].timestamp,
                                    resp'.items[n + 1].timestamp)]_vars

\* a resolved link shows a turn that was appended after the link was made
C10_Witness ==
    /\ resp.op = "resolve"
    /\ resp.status = 200
    /\ \E l \in links :
           /\ l.shareId = resp.shareId
           /\ \E n \in 1..Len(resp.items) :
                  resp.items[n].timestamp.t > l.created_at

\* C11: a create-link request for a conversation identity without turns
\* ends with not found (404).  (That it creates no link is part of C8.)
C11_ShareOfNothingIsNotFound ==
    (resp.op = "share" /\ ~HasOwner(chat, resp.conv))
        => resp.status = 404

\* C14: a delete request on a conversation identity without turns returns
\* success and changes no store; a successful delete leaves the identity
\* without turns, so a second delete is such a request and changes nothing.
C14_DeleteIsIdempotent ==
    [][/\ (resp'.op = "delete" /\ Query(chat, resp'.conv) = <<>>)
            => /\ resp'.status = 200
               /\ UNCHANGED <<chat, usage, links>>
       /\ (resp'.op = "delete" /\ resp'.status = 200)
            => Query(chat', resp'.conv) = <<>>]_vars

\* a delete answered with success while the conversation store holds no
\* turn at all and the other stores hold a link and a usage record
C14_Witness ==
    /\ resp.op = "delete"
    /\ resp.status = 200
    /\ chat = {}
    /\ links # {}
    /\ usage # {}

\* C12: a rename request whose title is blank after trimming, or longer
\* than 100 characters, is rejected and leaves the conversation store
\* unchanged.
C12_BlankAndLongTitlesRejected ==
    [][\A c \in Convs, u \in Users, t \in InputTitles :
         (rename_conversation(c, t, u) /\ (Strip(t) = "" \/ Len(t) > 100))
            => (resp'.status # 200 /\ chat' = chat)]_vars

\* C13: after a rename by the owner succeeded, a list request of that owner
\* as the next step reports the conversation under the new title.
C13_RenameVisibleInNextList ==
    [][(/\ resp.op = "rename"
        /\ resp.status = 200
        /\ resp'.op = "list"
        /\ resp'.user = resp.user)
          => \E n \in DOMAIN resp'.items :
                resp'.items[n] = [id |-> resp.conv, title |-> resp.text]]_vars

\* the owner lists two conversations right after renaming the one that
\* began with the long prompt and already had a title
C13_Witness ==
    /\ resp.op = "list"
    /\ Len(resp.items) = 2
    /\ \E n \in DOMAIN resp.items :
          /\ resp.items[n].title = "T"
          /\ \E i \in chat : /\ i.conversationId = resp.items[n].id
                             /\ i.title = "T"
                             /\ i.text = LongPrompt

\* C15: the usage table changes only in the step that ends a generate
\* request with success, after at least one provider call that did not
\* fail and with a reported total token count above zero; that step adds
\* one record with the request's counters, and since a request ends once,
\* a request adds at most one record and a failed one adds none.
C15_UsageOnlyForPositiveTotals ==
    [][usage' # usage =>
         \E r \in Reqs :
            /\ reqs[r].pc = "save"
            /\ reqs'[r].pc = "done"
            /\ reqs'[r].status = 200
            /\ reqs[r].calls >= 1
            /\ reqs[r].usage_data.total_tokens > 0
            /\ \E rec \in usage' :
                  /\ rec \notin usage
                  /\ usage' = usage \cup {rec}
                  /\ rec.userId = reqs[r].user_id
                  /\ rec.total_tokens = reqs[r].usage_data.total_tokens]_vars

\* a request that went through the tool round has ended and its record,
\* with the counters of the second response, is in the table
C15_Witness ==
    /\ reqs[1].pc = "done"
    /\ reqs[1].status = 200
    /\ reqs[1].calls = 2
    /\ \E rec \in usage : rec.userId = reqs[1].user_id /\ rec.total_tokens = 2

\* C16: the user turn a generate request persists has the raw prompt as its
\* text when one is given, otherwise "Image Received" with an image and
\* "..." without; no user turn of the table has an empty text.
C16_UserTurnTextNeverEmpty ==
    [][/\ \A u \in Users, c \in InputConvs, m \in InputModels,
             p \in InputPrompts, img \in InputImages :
            GenerateStart(1, u, c, m, p, img, TRUE) =>
               \E i \in chat' :
                  /\ i.conversationId = reqs'[1].conversation_id
                  /\ i.timestamp = OrderingKey(clock, "user")
                  /\ i.sender = "user"
                  /\ i.text = IF p \notin {None, ""} THEN p
                              ELSE IF img # None THEN "Image Received"
                              ELSE "..."
       /\ \A i \in chat' : i.sender = "user" => i.text # ""]_vars

\* the user turn of a request that had an image and no prompt is in the
\* table
C16_Witness ==
    /\ reqs[1].puts # <<>>
    /\ reqs[1].puts[1].item \in chat
    /\ reqs[1].puts[1].item.sender = "user"
    /\ reqs[1].puts[1].item.text = "Image Received"

\* C17: a generate request with an empty prompt and no image is rejected as
\* a validation error: it ends at once, writes no turn and no usage record
\* and makes no provider call.
C17_EmptyRequestRejected ==
    [][\A u \in Users, c \in InputConvs, m \in InputModels,
          p \in {None, ""}, ok \in BOOLEAN :
         GenerateStart(1, u, c, m, p, None, ok) =>
            /\ resp'.op = "generate"
            /\ resp'.status \in {400, 422}
            /\ reqs'[1].pc = "done"
            /\ reqs'[1].calls = 0
            /\ UNCHANGED <<chat, usage>>]_vars

\* C18: a generate request makes at most two provider calls and runs at
\* most one tool round; the step after the tool round is the second call,
\* whose content is the answer whether or not the response has tool calls,
\* and no tool round follows it; the request then ends, done or failed.
C18_OneToolRoundTwoCalls ==
    /\ [](\A r \in Reqs : reqs[r].calls <= 2 /\ reqs[r].tool_rounds <= 1)
    /\ [][\A r \in Reqs :
            /\ (reqs'[r].pc = "tools" /\ reqs[r].pc # "tools")
                 => reqs[r].pc = "call"
            /\ (reqs[r].pc = "call2" /\ reqs'[r].pc # "call2")
                 => \/ /\ reqs'[r].pc = "save"
                       /\ reqs'[r].ai_response_text =
                              OrEmpty(reqs'[r].second_content)
                    \/ /\ reqs'[r].pc = "done"
                       /\ reqs'[r].status = 500]_vars
    /\ \A r \in Reqs :
          reqs[r].pc = "call2"
             ~> (reqs[r].pc = "done" /\ reqs[r].status \in {200, 500})

\* a request is at its save step after two calls and one tool round of
\* two tool calls, with the content of the second response as its answer
C18_Witness ==
    /\ reqs[1].pc = "save"
    /\ reqs[1].calls = 2
    /\ reqs[1].tool_rounds = 1
    /\ Len(reqs[1].tool_msgs) = 2
    /\ reqs[1].ai_response_text = "a2"

C20_SearchResultInToolMessage ==
    \A r \in Reqs :
       reqs[r].pc = "call2" =>
          \A n \in 1..Len(reqs[r].tool_msgs) :
             reqs[r].tool_msgs[n].name = "google_search" =>
                reqs[r].tool_msgs[n].content = google_search(SearchQuery)

\* C22: the ordering key of a request's user turn sorts strictly before the
\* ordering key of its ai turn, also when both have the same instant.
C22_UserKeyBeforeAiKey ==
    \A r \in Reqs :
       (reqs[r].pc = "done" /\ Len(reqs[r].puts) = 2)
          => KeyLess(reqs[r].puts[1].item.timestamp,
                     reqs[r].puts[2].item.timestamp)

\* C24: a generate request that names a model outside the supported-model
\* table ends with a client error, leaves the conversation store and the
\* usage log unchanged and makes no provider call.
C24_UnsupportedModelNoSideEffects ==
    [][\A u \in Users, c \in InputConvs, m \in InputModels,
          p \in InputPrompts, img \in InputImages, ok \in BOOLEAN :
         (m \notin DOMAIN SUPPORTED_MODELS
            /\ GenerateStart(1, u, c, m, p, img, ok))
           => /\ resp'.op = "generate"
              /\ resp'.status = 400
              /\ reqs'[1].pc = "done"
              /\ reqs'[1].calls = 0
              /\ UNCHANGED <<chat, usage>>]_vars

\* the primary key of an item of ChatHistory
KeyOf(item) == <<item.conversationId, item.timestamp>>

\* C23: a rename request creates and removes no turn and changes nothing
\* but the title of the earliest turn of its conversation; and whatever
\* generate requests run next to it, a turn that carries a title is the
\* earliest turn of its conversation.
C23_TitleOnEarliestTurnOnly ==
    /\ [][\A c \in Convs, u \in Users, t \in InputTitles :
            rename_conversation(c, t, u) =>
               /\ {KeyOf(i) : i \in chat'} = {KeyOf(i) : i \in chat}
               /\ \A i \in chat :
                    \E j \in chat' :
                       /\ KeyOf(j) = KeyOf(i)
                       /\ [j EXCEPT !.title = i.title] = i
                       /\ j.title # i.title
                            => /\ i.conversationId = c
                               /\ i = Query(chat, c)[1]]_vars
    /\ [](\A i \in chat :
            i.title # None => i = Query(chat, i.conversationId)[1])

\* C21: the message list is the system directive, then the prior turns in
\* order with their contents, a turn of role "ai" presented with role
\* "assistant" and every other turn with its own role, then the current
\* user message.
C21_AiPresentedAsAssistant ==
    \A r \in Reqs :
       reqs[r].pc = "built" =>
          LET history == reqs[r].request.history
              messages == reqs[r].messages_for_api
          IN  /\ Len(messages) = Len(history) + 2
              /\ messages[1].role = "system"
              /\ messages[Len(messages)].role = "user"
              /\ \A n \in 1..Len(history) :
                    /\ messages[n + 1].content = history[n].content
                    /\ messages[n + 1].role =
                          IF history[n].role = "ai" THEN "assistant"
                          ELSE history[n].role

====
